---- MODULE Spec2Model ----
(***************************************************************************)
(* A model of jetstream/engine/engine_api.py: the packed ResultTokens      *)
(* buffer with its slot accessors, the Engine contract, and the            *)
(* JetStreamEngine wrapper that forwards to a downstream engine.           *)
(***************************************************************************)
EXTENDS Integers, Sequences, FiniteSets, TLC

VARIABLES
  rt,                \* the ResultTokens object under test (r)
  out,               \* the last ResultTokens method call and what it returned
  downstream_engine, \* JetStreamEngine._downstream_engine
  prefill_buckets,   \* JetStreamEngine.prefill_buckets
  warm,              \* JetStreamEngine.warm
  lastFacade,        \* the last call made on the JetStreamEngine and its outcome
  lastDown,          \* the call the downstream engine received for it
  decode_state,      \* the scheduler's live DecodeState value
  status,            \* the scheduler's slot table: FREE / ACTIVE per slot
  held,              \* downstream engine: resource blocks held per slot
  lastLife           \* the last scheduler step and whether it raised

vars == <<rt, out, downstream_engine, prefill_buckets, warm, lastFacade,
          lastDown, decode_state, status, held, lastLife>>

rtVars == <<rt, out>>
facadeVars == <<downstream_engine, prefill_buckets, warm>>
fwdVars == <<lastFacade, lastDown>>
lifeVars == <<decode_state, status, held, lastLife>>

----------------------------------------------------------------------------
(* Bounds of the model.                                                    *)

\* max_concurrent_decodes ranges over 1..MaxSlots
MaxSlots == 2
\* samples_per_slot ranges over 1..MaxSamples
MaxSamples == 2
\* number of columns of ResultTokens.data
Width == 4
\* longest slot tuple handed to get_result_at_slots
MaxListLen == 2
\* generate steps a slot is followed for
MaxSteps == 1
\* resource blocks of the downstream engine's slot-scoped pool
PoolSize == 2

----------------------------------------------------------------------------
(* Python / numpy helpers.                                                 *)

Min(a, b) == IF a < b THEN a ELSE b

Max0(a) == IF a < 0 THEN 0 ELSE a

\* x[lo:hi] on a sequence of length n selects max(0, min(hi, n) - lo) items
\* (indices are non-negative here).
SliceLen(n, lo, hi) == Max0(Min(hi, n) - Min(lo, n))

\* row[lo:hi]
SliceSeq(row, lo, hi) ==
  [k \in 1..SliceLen(Len(row), lo, hi) |-> row[lo + k]]

\* m[r0:r1, c0:c1]
Slice2D(m, r0, r1, c0, c1) ==
  [i \in 1..SliceLen(Len(m), r0, r1) |-> SliceSeq(m[r0 + i], c0, c1)]

\* variant: the selected rows in buffer order, each once (mask-style selection)
GatherRowsSorted(m, slots, c0, c1) ==
  LET picked == {slots[i] : i \in 1..Len(slots)}
      rank(s) == Cardinality({t \in picked : t < s}) + 1
      order == [k \in 1..Cardinality(picked) |->
                  CHOOSE s \in picked : rank(s) = k]
  IN [i \in 1..Len(order) |-> SliceSeq(m[order[i] + 1], c0, c1)]

\* m[slots, c0:c1] : integer-array indexing of the rows, in the given order
GatherRows(m, slots, c0, c1) ==
  [i \in 1..Len(slots) |-> SliceSeq(m[slots[i] + 1], c0, c1)]

\* m.shape[1]
NumColumns(m) == IF Len(m) = 0 THEN 0 ELSE Len(m[1])

\* m[:, 0] : the first column as a 1-D vector
FirstColumn(m) == [i \in 1..Len(m) |-> m[i][1]]

\* variant: m[:, -1]
LastColumn(m) == [i \in 1..Len(m) |-> m[i][Len(m[i])]]

\* the "[:, 0]" of get_result_at_slot / get_result_at_slots
LengthColumn(m) == FirstColumn(m)

----------------------------------------------------------------------------
(* SlotData and ResultTokens.                                              *)

\* log_prob = None
NoLogProb == [present |-> FALSE, kind |-> "None", rows |-> <<>>]

SlotData(tokens, valid, lengths, log_prob) ==
  [err |-> "None", tokens |-> tokens, valid |-> valid, lengths |-> lengths,
   log_prob |-> log_prob]

\* a call that raised instead of returning a SlotData
RaisedSlotData(e) ==
  [err |-> e, tokens |-> <<>>, valid |-> <<>>, lengths |-> <<>>,
   log_prob |-> NoLogProb]

\* the dataclass constructor: stores its arguments, validates nothing
ResultTokens(data, tokens_idx, valid_idx, length_idx, samples_per_slot, log_prob) ==
  [built |-> TRUE, data |-> data, tokens_idx |-> tokens_idx,
   valid_idx |-> valid_idx, length_idx |-> length_idx,
   samples_per_slot |-> samples_per_slot, log_prob |-> log_prob]

\* no ResultTokens constructed yet
NoResultTokens ==
  [built |-> FALSE, data |-> [kind |-> "None", rows |-> <<>>],
   tokens_idx |-> <<0, 0>>, valid_idx |-> <<0, 0>>, length_idx |-> <<0, 0>>,
   samples_per_slot |-> 0, log_prob |-> NoLogProb]

\* np.array(x): a host copy with the same contents
NpArray(x) == [kind |-> "np", rows |-> x.rows]

\* variant: valid_idx and length_idx passed in each other's position
convert_to_numpy_swapped(self) ==
  ResultTokens(NpArray(self.data), self.tokens_idx, self.length_idx,
               self.valid_idx, self.samples_per_slot, self.log_prob)

convert_to_numpy(self) ==
  ResultTokens(NpArray(self.data), self.tokens_idx, self.valid_idx,
               self.length_idx, self.samples_per_slot, self.log_prob)

get_result_at_slot(self, slot) ==
  LET start_idx == slot * self.samples_per_slot
      end_idx == (slot + 1) * self.samples_per_slot
      lens == Slice2D(self.data.rows, start_idx, end_idx,
                      self.length_idx[1], self.length_idx[2])
  IN IF SliceLen(NumColumns(self.data.rows), self.length_idx[1],
                 self.length_idx[2]) = 0
     THEN RaisedSlotData("IndexError")  \* [:, 0] of a zero-column array
     ELSE SlotData(
            Slice2D(self.data.rows, start_idx, end_idx,
                    self.tokens_idx[1], self.tokens_idx[2]),
            Slice2D(self.data.rows, start_idx, end_idx,
                    self.valid_idx[1], self.valid_idx[2]),
            LengthColumn(lens),
            NoLogProb)

get_result_at_slots(self, slots) ==
  IF \/ \E i \in 1..Len(slots) : slots[i] >= Len(self.data.rows)
     \/ SliceLen(NumColumns(self.data.rows), self.length_idx[1],
                 self.length_idx[2]) = 0
  THEN RaisedSlotData("IndexError")
  ELSE SlotData(
         GatherRows(self.data.rows, slots,
                    self.tokens_idx[1], self.tokens_idx[2]),
         GatherRows(self.data.rows, slots,
                    self.valid_idx[1], self.valid_idx[2]),
         LengthColumn(GatherRows(self.data.rows, slots,
                                 self.length_idx[1], self.length_idx[2])),
         IF self.log_prob.present
         THEN [present |-> TRUE, kind |-> self.log_prob.kind,
               rows |-> GatherRows(self.log_prob.rows, slots, 0,
                                   NumColumns(self.log_prob.rows))]
         ELSE NoLogProb)

----------------------------------------------------------------------------
(* Inputs of the ResultTokens operations.                                  *)

\* buffer contents: every cell differs from every other cell
Cell(seed, r, c) == seed + 10 * r + c

DataRows(seed, n) == [r \in 1..n |-> [c \in 1..Width |-> Cell(seed, r, c)]]

LogProbRows(n, w) == [r \in 1..n |-> [c \in 1..w |-> 100 + Cell(0, r, c)]]

\* half-open column ranges lying inside the buffer
Ranges(widths) ==
  {r \in {<<lo, lo + w>> : lo \in 0..(Width - 1), w \in widths} :
     r[2] <= Width}

\* number of slots of the batch r covers
NumSlots(r) == Len(r.data.rows) \div r.samples_per_slot

\* slot tuples of length 0..n over the slots 0..(k-1)
SlotTuples(k, n) == UNION {[1..len -> 0..(k - 1)] : len \in 0..n}

NoOut ==
  [op |-> "none", slot |-> 0, slots |-> <<>>,
   res |-> RaisedSlotData("None"), np1 |-> NoResultTokens,
   np2 |-> NoResultTokens]

----------------------------------------------------------------------------
(* Actions on a ResultTokens.                                              *)
(* The methods read r and change nothing, so each behaviour follows one    *)
(* constructed r through one call (and a second conversion).               *)

\* ResultTokens(...) is constructed by prefill / generate
ResultTokensInit ==
  /\ ~rt.built
  /\ \E mcd \in 1..MaxSlots, sps \in 1..MaxSamples, seed \in {0, 1},
        kind \in {"jax", "np"}, lp \in BOOLEAN,
        tw \in 1..2, lr \in Ranges({1, 2}) :
       \E vr \in Ranges({tw}) :
         rt' = ResultTokens(
                 [kind |-> kind, rows |-> DataRows(seed, mcd * sps)],
                 <<0, tw>>, vr, lr, sps,
                 IF lp THEN [present |-> TRUE, kind |-> kind,
                             rows |-> LogProbRows(mcd * sps, tw)]
                       ELSE NoLogProb)
  /\ out' = NoOut
  /\ UNCHANGED <<facadeVars, fwdVars, lifeVars>>

GetResultAtSlot ==
  /\ rt.built
  /\ out.op = "none"
  /\ \E slot \in 0..(NumSlots(rt) - 1) :
       out' = [NoOut EXCEPT !.op = "get_result_at_slot", !.slot = slot,
                            !.res = get_result_at_slot(rt, slot)]
  /\ UNCHANGED <<rt, facadeVars, fwdVars, lifeVars>>

GetResultAtSlots ==
  /\ rt.built
  /\ out.op = "none"
  /\ \E slots \in SlotTuples(NumSlots(rt), MaxListLen) :
       out' = [NoOut EXCEPT !.op = "get_result_at_slots", !.slots = slots,
                            !.res = get_result_at_slots(rt, slots)]
  /\ UNCHANGED <<rt, facadeVars, fwdVars, lifeVars>>

\* r.convert_to_numpy()
ConvertToNumpy ==
  /\ rt.built
  /\ out.op = "none"
  /\ out' = [NoOut EXCEPT !.op = "convert_to_numpy",
                          !.np1 = convert_to_numpy(rt)]
  /\ UNCHANGED <<rt, facadeVars, fwdVars, lifeVars>>

\* r.convert_to_numpy().convert_to_numpy()
ConvertToNumpyAgain ==
  /\ out.op = "convert_to_numpy"
  /\ out' = [out EXCEPT !.op = "convert_to_numpy_twice",
                        !.np2 = convert_to_numpy(out.np1)]
  /\ UNCHANGED <<rt, facadeVars, fwdVars, lifeVars>>

NextRT ==
  \/ ResultTokensInit
  \/ GetResultAtSlot
  \/ GetResultAtSlots
  \/ ConvertToNumpy
  \/ ConvertToNumpyAgain

----------------------------------------------------------------------------
(* Calls, arguments and outcomes.                                          *)

\* Python None
None == "None"

\* a keyword argument the caller did not pass
Absent == "Absent"

\* a parameter's default value applies when the argument is not passed
Default(v) == IF v = Absent THEN None ELSE v

NoArgs == [nargs |-> 0]

NoCall == [op |-> "none", args |-> NoArgs]

\* what the body of a JetStreamEngine method does: call the downstream
\* engine and hand back what that call returns or raises, ...
Forward(op, args) ==
  [kind |-> "forward", op |-> op, args |-> args, err |-> None]

\* ... or raise before any downstream call (Python's argument binding), ...
RaiseOwn(e) == [kind |-> "raise", op |-> "none", args |-> NoArgs, err |-> e]

\* ... or return None without calling the downstream engine.
ReturnNone == [kind |-> "return", op |-> "none", args |-> NoArgs, err |-> None]

Returned(v) == [kind |-> "return", err |-> None, val |-> v]

Raised(e) == [kind |-> "raise", err |-> e, val |-> NoArgs]

NoOutcome == [kind |-> "none", err |-> None, val |-> NoArgs]

SameOutcome(a, b) ==
  /\ a.kind = b.kind
  /\ a.err = b.err
  /\ (a.kind = "return" => a.val = b.val)

----------------------------------------------------------------------------
(* The downstream engine E: an implementation of the Engine contract.      *)
(* Engine's operations are abstract; E returns a value determined by the   *)
(* operation and its arguments, and follows the contract's slot semantics. *)

Slots == 0..(MaxSlots - 1)

EmptySlot == [prefix |-> None, steps |-> 0]

\* init_decode_state(): no slot holds a prefix
InitDecodeState == [s \in Slots |-> EmptySlot]

\* insert: merge prefix into decode_state at slot
E_insert(prefix, ds, slot) ==
  [ds EXCEPT ![slot] = [prefix |-> prefix, steps |-> 0]]

\* bulk_insert: the same prefix into every listed slot
E_bulk_insert(prefix, ds, slots) ==
  [s \in Slots |->
     IF \E i \in 1..Len(slots) : slots[i] = s
     THEN [prefix |-> prefix, steps |-> 0] ELSE ds[s]]

\* generate: every slot holding a sequence advances by one step
E_generate(ds) ==
  [s \in Slots |->
     IF ds[s].prefix # None THEN [ds[s] EXCEPT !.steps = @ + 1] ELSE ds[s]]

\* the value E returns for a call
E_return(op, args) ==
  CASE op = "insert" ->
         [decode_state |-> E_insert(args.prefix, args.decode_state, args.slot)]
    [] op = "bulk_insert" ->
         [decode_state |->
            E_bulk_insert(args.prefix, args.decode_state, args.slots)]
    [] op = "generate" ->
         [decode_state |-> E_generate(args.decode_state),
          sampled_tokens |-> [ret_of |-> op, sampler |-> args.sampler]]
    [] OTHER -> [ret_of |-> op, args |-> args]

\* E called with args: it raises its own error e, or returns
E_call(op, args, fault) ==
  IF fault # None THEN Raised(fault) ELSE Returned(E_return(op, args))

\* the arguments E's method is bound to when the caller's keywords kw are
\* passed to E directly (the Engine signatures and their defaults)
EngineBind(op, kw) ==
  CASE op = "prefill" ->
         [params |-> kw.params,
          existing_prefix |-> Default(kw.existing_prefix),
          padded_tokens |-> kw.padded_tokens,
          true_length |-> kw.true_length,
          sampler |-> Default(kw.sampler),
          request_id |-> Default(kw.request_id)]
    [] op = "prefill_multisampling" ->
         [params |-> kw.params,
          existing_prefix |-> Default(kw.existing_prefix),
          padded_tokens |-> kw.padded_tokens,
          true_length |-> kw.true_length,
          sampler |-> Default(kw.sampler),
          rng |-> Default(kw.rng),
          num_samples |-> kw.num_samples]
    [] op = "generate" ->
         [params |-> kw.params, decode_state |-> kw.decode_state,
          sampler |-> Default(kw.sampler)]
    [] op = "insert" ->
         [prefix |-> kw.prefix, decode_state |-> kw.decode_state,
          slot |-> kw.slot, request_id |-> Default(kw.request_id)]
    [] OTHER -> kw

----------------------------------------------------------------------------
(* JetStreamEngine: the wrapper around the downstream engine.              *)

\* __init__
JetStreamEngineInit(engine) ==
  [downstream_engine |-> engine, prefill_buckets |-> None, warm |-> FALSE]

\* prefill(*, params, existing_prefix=None, padded_tokens, true_length)
JetStreamEngine_prefill(kw) ==
  IF kw.sampler # Absent \/ kw.request_id # Absent
  THEN RaiseOwn("TypeError")
  ELSE Forward("prefill",
         [params |-> kw.params,
          existing_prefix |-> None,
          padded_tokens |-> kw.padded_tokens,
          true_length |-> kw.true_length,
          sampler |-> None,
          request_id |-> None])

JetStreamEngine_prefill_multisampling(kw) ==
  Forward("prefill_multisampling",
    [params |-> kw.params,
     existing_prefix |-> Default(kw.existing_prefix),
     padded_tokens |-> kw.padded_tokens,
     true_length |-> kw.true_length,
     sampler |-> Default(kw.sampler),
     rng |-> Default(kw.rng),
     num_samples |-> kw.num_samples])

\* variant: the slot is not passed on as given
JetStreamEngine_insert_next_slot(kw) ==
  Forward("insert",
    [prefix |-> kw.prefix, decode_state |-> kw.decode_state,
     slot |-> (kw.slot + 1) % MaxSlots,
     request_id |-> Default(kw.request_id)])

JetStreamEngine_insert(kw) ==
  Forward("insert",
    [prefix |-> kw.prefix, decode_state |-> kw.decode_state,
     slot |-> kw.slot, request_id |-> Default(kw.request_id)])

JetStreamEngine_bulk_insert(kw) ==
  Forward("bulk_insert",
    [prefix |-> kw.prefix, decode_state |-> kw.decode_state,
     slots |-> kw.slots])

\* generate(self, params, decode_state)
JetStreamEngine_generate(kw) ==
  IF kw.sampler # Absent
  THEN RaiseOwn("TypeError")
  ELSE Forward("generate",
         [params |-> kw.params, decode_state |-> kw.decode_state,
          sampler |-> None])

\* Engine.free_resource, which JetStreamEngine inherits
Engine_free_resource(kw) == ReturnNone

JetStreamEngine_free_resource(kw) == Engine_free_resource(kw)

JetStreamEngine_load_params(kw) == Forward("load_params", kw)

JetStreamEngine_get_prefix_destination_sharding(kw) ==
  Forward("get_prefix_destination_sharding", kw)

JetStreamEngine_get_tokenizer(kw) == Forward("get_tokenizer", kw)

JetStreamEngine_build_tokenizer(kw) == Forward("build_tokenizer", kw)

JetStreamEngine_init_decode_state(kw) == Forward("init_decode_state", kw)

PropertyNames ==
  {"max_concurrent_decodes", "samples_per_slot", "max_prefill_length",
   "mesh", "colocated_cpus", "use_chunked_prefill", "prefill_chunk_size"}

\* the read-only properties
JetStreamEngine_property(name) == Forward(name, NoArgs)

----------------------------------------------------------------------------
(* Calls on the JetStreamEngine, with a downstream engine that records     *)
(* the call it receives and returns or raises.                             *)

NoFacadeCall ==
  [op |-> "none", kw |-> NoArgs, fault |-> None, out |-> NoOutcome]

Faults == {None, "ResourceExhausted"}

\* decode states handed to insert / bulk_insert / generate
DecodeStates == {InitDecodeState, E_insert("p1", InitDecodeState, 0)}

\* one call: b is what the method body does for the caller's keywords kw
Call(op, kw, b, fault) ==
  /\ lastFacade' =
       [op |-> op, kw |-> kw, fault |-> fault,
        out |-> CASE b.kind = "forward" -> E_call(b.op, b.args, fault)
                  [] b.kind = "raise" -> Raised(b.err)
                  [] OTHER -> Returned([none |-> None])]
  /\ lastDown' = IF b.kind = "forward"
                 THEN [op |-> b.op, args |-> b.args] ELSE NoCall
  /\ UNCHANGED <<rtVars, lifeVars>>

PrefillKw ==
  [params : {"params"}, existing_prefix : {Absent, "xp"},
   padded_tokens : {"tok"}, true_length : 1..2,
   sampler : {Absent, "smp"}, request_id : {Absent, "rid"}]

\* variant: a prefill that marks the engine warm
PrefillWarms ==
  /\ \E kw \in PrefillKw, fault \in Faults :
       Call("prefill", kw, JetStreamEngine_prefill(kw), fault)
  /\ warm' = TRUE
  /\ UNCHANGED <<downstream_engine, prefill_buckets>>

Prefill ==
  /\ \E kw \in PrefillKw, fault \in Faults :
       Call("prefill", kw, JetStreamEngine_prefill(kw), fault)
  /\ UNCHANGED facadeVars

PrefillMultisampling ==
  /\ \E kw \in [params : {"params"}, existing_prefix : {Absent, "xp"},
                padded_tokens : {"tok"}, true_length : 1..2,
                sampler : {Absent, "smp"}, rng : {Absent, "rng"},
                num_samples : 1..MaxSamples],
        fault \in Faults :
       Call("prefill_multisampling", kw,
            JetStreamEngine_prefill_multisampling(kw), fault)
  /\ UNCHANGED facadeVars

Insert ==
  /\ \E kw \in [prefix : {"p1", "p2"}, decode_state : DecodeStates,
                slot : Slots, request_id : {Absent, "rid"}],
        fault \in Faults :
       Call("insert", kw, JetStreamEngine_insert(kw), fault)
  /\ UNCHANGED facadeVars

BulkInsert ==
  /\ \E kw \in [prefix : {"p1", "p2"}, decode_state : DecodeStates,
                slots : SlotTuples(MaxSlots, MaxListLen)],
        fault \in Faults :
       Call("bulk_insert", kw, JetStreamEngine_bulk_insert(kw), fault)
  /\ UNCHANGED facadeVars

Generate ==
  /\ \E kw \in [params : {"params"}, decode_state : DecodeStates,
                sampler : {Absent, "smp"}],
        fault \in Faults :
       Call("generate", kw, JetStreamEngine_generate(kw), fault)
  /\ UNCHANGED facadeVars

FreeResource ==
  /\ \E kw \in [slot : Slots], fault \in Faults :
       Call("free_resource", kw, JetStreamEngine_free_resource(kw), fault)
  /\ UNCHANGED facadeVars

LoadParams ==
  /\ \E kw \in [args : {"a0", "a1"}, kwargs : {"k0", "k1"}],
        fault \in Faults :
       Call("load_params", kw, JetStreamEngine_load_params(kw), fault)
  /\ UNCHANGED facadeVars

InitDecodeStateCall ==
  /\ \E kw \in [args : {"a0", "a1"}, kwargs : {"k0", "k1"}],
        fault \in Faults :
       Call("init_decode_state", kw,
            JetStreamEngine_init_decode_state(kw), fault)
  /\ UNCHANGED facadeVars

GetPrefixDestinationSharding ==
  /\ \E fault \in Faults :
       Call("get_prefix_destination_sharding", NoArgs,
            JetStreamEngine_get_prefix_destination_sharding(NoArgs), fault)
  /\ UNCHANGED facadeVars

GetTokenizer ==
  /\ \E fault \in Faults :
       Call("get_tokenizer", NoArgs,
            JetStreamEngine_get_tokenizer(NoArgs), fault)
  /\ UNCHANGED facadeVars

BuildTokenizer ==
  /\ \E kw \in [metadata : {"m0", "m1"}], fault \in Faults :
       Call("build_tokenizer", kw, JetStreamEngine_build_tokenizer(kw), fault)
  /\ UNCHANGED facadeVars

ReadProperty ==
  /\ \E name \in PropertyNames, fault \in Faults :
       Call(name, NoArgs, JetStreamEngine_property(name), fault)
  /\ UNCHANGED facadeVars

Next ==
  \/ Prefill
  \/ PrefillMultisampling
  \/ Insert
  \/ BulkInsert
  \/ Generate
  \/ FreeResource
  \/ LoadParams
  \/ InitDecodeStateCall
  \/ GetPrefixDestinationSharding
  \/ GetTokenizer
  \/ BuildTokenizer
  \/ ReadProperty

----------------------------------------------------------------------------
(* The slot lifecycle: the scheduler threads one DecodeState through       *)
(* insert / generate / free_resource calls on the JetStreamEngine; the     *)
(* downstream engine allocates a block of a finite pool per inserted slot. *)

NoLifeStep == [op |-> "none", slot |-> 0, err |-> None]

\* blocks of the pool not held by any slot
RECURSIVE SumHeld(_, _)
SumHeld(h, n) == IF n = 0 THEN 0 ELSE h[n - 1] + SumHeld(h, n - 1)

FreeBlocks(h) == PoolSize - SumHeld(h, MaxSlots)

\* E.insert: allocates a block for the slot, or fails when none is left
\* E.free_resource: releases the slot's blocks
SchedInsert ==
  /\ \E slot \in Slots, prefix \in {"p1", "p2"} :
       /\ status[slot] = "FREE"
       /\ LET kw == [prefix |-> prefix, decode_state |-> decode_state,
                     slot |-> slot, request_id |-> Absent]
              b == JetStreamEngine_insert(kw)
          IN IF b.kind = "forward" /\ FreeBlocks(held) > 0
             THEN /\ decode_state' =
                       E_return(b.op, b.args).decode_state
                  /\ held' = [held EXCEPT ![b.args.slot] = @ + 1]
                  /\ status' = [status EXCEPT ![slot] = "ACTIVE"]
                  /\ lastLife' = [op |-> "insert", slot |-> slot,
                                  err |-> None]
             ELSE /\ lastLife' = [op |-> "insert", slot |-> slot,
                                  err |-> "ResourceExhausted"]
                  /\ UNCHANGED <<decode_state, held, status>>
  /\ UNCHANGED <<rtVars, facadeVars, fwdVars>>

SchedGenerate ==
  /\ \A s \in Slots : decode_state[s].steps < MaxSteps
  /\ LET kw == [params |-> "params", decode_state |-> decode_state,
                sampler |-> Absent]
         b == JetStreamEngine_generate(kw)
     IN /\ b.kind = "forward"
        /\ decode_state' = E_return(b.op, b.args).decode_state
  /\ lastLife' = [op |-> "generate", slot |-> 0, err |-> None]
  /\ UNCHANGED <<held, status, rtVars, facadeVars, fwdVars>>

SchedFreeResource ==
  /\ \E slot \in Slots :
       /\ status[slot] = "ACTIVE"
       /\ LET b == JetStreamEngine_free_resource([slot |-> slot])
          IN held' = IF b.kind = "forward"
                     THEN [held EXCEPT ![b.args.slot] = 0]
                     ELSE held
       /\ status' = [status EXCEPT ![slot] = "FREE"]
       /\ lastLife' = [op |-> "free_resource", slot |-> slot, err |-> None]
  /\ UNCHANGED <<decode_state, rtVars, facadeVars, fwdVars>>

NextLife ==
  \/ SchedInsert
  \/ SchedGenerate
  \/ SchedFreeResource

----------------------------------------------------------------------------
Init ==
  /\ rt = NoResultTokens
  /\ out = NoOut
  /\ LET f == JetStreamEngineInit("E")
     IN /\ downstream_engine = f.downstream_engine
        /\ prefill_buckets = f.prefill_buckets
        /\ warm = f.warm
  /\ lastFacade = NoFacadeCall
  /\ lastDown = NoCall
  /\ decode_state = InitDecodeState
  /\ status = [s \in Slots |-> "FREE"]
  /\ held = [s \in Slots |-> 0]
  /\ lastLife = NoLifeStep

\* calls on the JetStreamEngine
Spec == Init /\ [][Next]_vars

\* operations on a ResultTokens
SpecRT == Init /\ [][NextRT]_vars

\* the scheduler's slot lifecycle through the JetStreamEngine
SpecLife == Init /\ [][NextLife]_vars

----------------------------------------------------------------------------
(* Properties.                                                             *)

SlotOps == {"get_result_at_slot", "get_result_at_slots"}

RangesOverlap(a, b) == a[1] < b[2] /\ b[1] < a[2]

OverlappingLayout(r) ==
  \/ RangesOverlap(r.tokens_idx, r.valid_idx)
  \/ RangesOverlap(r.tokens_idx, r.length_idx)
  \/ RangesOverlap(r.valid_idx, r.length_idx)

DisjointTuples(a, b) ==
  \A i \in 1..Len(a), j \in 1..Len(b) : a[i] # b[j]

\* C1: every call on the JetStreamEngine reaches the downstream engine as
\* the same operation with the same arguments, and returns exactly what the
\* downstream engine returns for those arguments.
C1_FacadeIdenticalToDirect ==
  (lastFacade.op # "none" /\ lastFacade.fault = None) =>
    LET direct == EngineBind(lastFacade.op, lastFacade.kw)
    IN /\ lastDown = [op |-> lastFacade.op, args |-> direct]
       /\ SameOutcome(lastFacade.out, E_call(lastFacade.op, direct, None))

\* C2: get_result_at_slot(slot) returns exactly samples_per_slot rows, and
\* its tokens, valid and lengths equal those of get_result_at_slots([slot]).
C2_SlotEqualsSlotsOfOne ==
  out.op = "get_result_at_slot" =>
    LET many == get_result_at_slots(rt, <<out.slot>>)
    IN /\ out.res.err = None
       /\ Len(out.res.tokens) = rt.samples_per_slot
       /\ Len(out.res.valid) = rt.samples_per_slot
       /\ Len(out.res.lengths) = rt.samples_per_slot
       /\ out.res.tokens = many.tokens
       /\ out.res.valid = many.valid
       /\ out.res.lengths = many.lengths

\* C3: for disjoint slot lists A and B, get_result_at_slots(A followed by B)
\* returns the rows of get_result_at_slots(A) followed by the rows of
\* get_result_at_slots(B), for tokens, valid, lengths and log_prob.
C3_SlotsOfConcatenation ==
  out.op = "get_result_at_slots" =>
    \A k \in 0..Len(out.slots) :
      LET A == SubSeq(out.slots, 1, k)
          B == SubSeq(out.slots, k + 1, Len(out.slots))
          ra == get_result_at_slots(rt, A)
          rb == get_result_at_slots(rt, B)
      IN DisjointTuples(A, B) =>
           /\ out.res.err = None
           /\ out.res.tokens = ra.tokens \o rb.tokens
           /\ out.res.valid = ra.valid \o rb.valid
           /\ out.res.lengths = ra.lengths \o rb.lengths
           /\ out.res.log_prob.present = rt.log_prob.present
           /\ out.res.log_prob.rows = ra.log_prob.rows \o rb.log_prob.rows

C3_Witness ==
  /\ out.op = "get_result_at_slots"
  /\ Len(out.slots) = 2
  /\ out.slots[1] > out.slots[2]
  /\ rt.log_prob.present
  /\ Len(out.res.tokens) = 2

\* C4: a ResultTokens whose tokens_idx, valid_idx and length_idx overlap is
\* rejected: it is never the case that one was constructed and an accessor
\* returned a SlotData from it.
C4_OverlapRejected ==
  ~ /\ rt.built
    /\ OverlappingLayout(rt)
    /\ out.op = "get_result_at_slot"
    /\ out.res.err = None

\* C5: a slot the scheduler has released through free_resource holds no
\* blocks of the downstream engine, and an insert runs out of blocks only
\* when the active slots hold the whole pool.
C5_FreedSlotHoldsNothing ==
  /\ \A s \in Slots : status[s] = "FREE" => held[s] = 0
  /\ lastLife.err = "ResourceExhausted" =>
       Cardinality({s \in Slots : status[s] = "ACTIVE"}) >= PoolSize

\* C6: convert_to_numpy keeps tokens_idx, valid_idx, length_idx,
\* samples_per_slot, log_prob and the data contents of r, and applying it
\* to its own result gives that result again.
C6_ConvertToNumpyIdempotent ==
  /\ out.op \in {"convert_to_numpy", "convert_to_numpy_twice"} =>
       /\ out.np1.data.kind = "np"
       /\ out.np1.data.rows = rt.data.rows
       /\ out.np1.tokens_idx = rt.tokens_idx
       /\ out.np1.valid_idx = rt.valid_idx
       /\ out.np1.length_idx = rt.length_idx
       /\ out.np1.samples_per_slot = rt.samples_per_slot
       /\ out.np1.log_prob = rt.log_prob
  /\ out.op = "convert_to_numpy_twice" =>
       /\ out.np2 = out.np1
       /\ out.np2.tokens_idx = rt.tokens_idx
       /\ out.np2.valid_idx = rt.valid_idx
       /\ out.np2.length_idx = rt.length_idx
       /\ out.np2.samples_per_slot = rt.samples_per_slot

C6_Witness ==
  /\ out.op = "convert_to_numpy_twice"
  /\ rt.data.kind = "jax"
  /\ rt.log_prob.present
  /\ rt.valid_idx # rt.length_idx
  /\ out.np2.data.kind = "np"

\* C7: a call on the JetStreamEngine fails with the downstream engine's
\* error when the downstream engine fails, and does not fail when the
\* downstream engine accepts the call.
C7_FailsExactlyAsDownstream ==
  lastFacade.op # "none" =>
    /\ lastFacade.fault # None =>
         SameOutcome(lastFacade.out, Raised(lastFacade.fault))
    /\ lastFacade.fault = None => lastFacade.out.kind # "raise"

\* C8: the lengths returned by get_result_at_slot and get_result_at_slots
\* hold one integer per returned row, the value of column length_idx[0] of
\* that row, whatever the width of the length range.
C8_LengthsAreFirstLengthColumn ==
  (out.op \in SlotOps /\ rt.length_idx[2] - rt.length_idx[1] >= 1) =>
    LET n == IF out.op = "get_result_at_slot"
             THEN rt.samples_per_slot ELSE Len(out.slots)
        row(i) == IF out.op = "get_result_at_slot"
                  THEN out.slot * rt.samples_per_slot + i
                  ELSE out.slots[i] + 1
    IN /\ out.res.err = None
       /\ Len(out.res.lengths) = n
       /\ Len(out.res.tokens) = n
       /\ \A i \in 1..n :
            out.res.lengths[i] = rt.data.rows[row(i)][rt.length_idx[1] + 1]

C8_Witness ==
  /\ out.op = "get_result_at_slot"
  /\ rt.length_idx[2] - rt.length_idx[1] = 2
  /\ rt.samples_per_slot = 2
  /\ out.slot = 1
  /\ Len(out.res.lengths) = 2

C10_BookkeepingUnchanged ==
  /\ warm = FALSE
  /\ prefill_buckets = None
  /\ downstream_engine = "E"

C10_Witness ==
  /\ lastFacade.op = "prefill"
  /\ lastFacade.out.kind = "return"
  /\ lastDown.op = "prefill"
  /\ warm = FALSE
====
